---- MODULE Spec2Model ----
(***************************************************************************)
(* Bellman-Ford single-source shortest paths (bellmanfloydAlgorithm.py):   *)
(* bellman_ford_algorithm, one action per relaxation pass and one for the  *)
(* negative-cycle check, and reconstruct_path, one action per loop turn.   *)
(***************************************************************************)
EXTENDS Integers, Sequences, FiniteSets, TLC

VARIABLES
    graph,          \* the dict: a sequence of <<key, <<neighbor, weight>>...>> entries, in dict order
    source,         \* the start vertex
    distances,      \* dict vertex -> number or Inf
    predecessors,   \* dict vertex -> vertex or None
    edges,          \* the flattened (start, end, weight) list
    pass,           \* relaxation passes completed
    pc,             \* position: "called", "relax", "returned", "ValueError", "KeyError",
                    \*           "walk", "path_returned", "walk_KeyError"
    target,         \* reconstruct_path's argument
    current,        \* reconstruct_path's cursor
    path,           \* reconstruct_path's list
    first           \* outcome of the previous call on the same edges, or NoCall

vars == <<graph, source, distances, predecessors, edges, pass, pc, target, current, path, first>>

\* ---------------------------------------------------------------- bounds
MaxEdges == 2
MaxWeight == 1

\* ---------------------------------------------------------------- values
Inf == 1000000
None == "None"
NoCall == [outcome |-> "NoCall", distances |-> <<>>]
Names == <<"A", "B", "C">>
Vertices == {Names[i] : i \in 1..Len(Names)}
Weights == (0 - MaxWeight)..MaxWeight

AddNoInf(d, w) == d + w
\* float addition with float('inf'): inf + w = inf
Add(d, w) == IF d = Inf THEN Inf ELSE d + w

\* float comparison with float('inf'): nothing finite or infinite is above inf
Less(a, b) == IF a = Inf THEN FALSE ELSE IF b = Inf THEN TRUE ELSE a < b

\* dict[k] = v: overwrites, or inserts a new key
Put(f, k, v) == [x \in (DOMAIN f) \cup {k} |-> IF x = k THEN v ELSE f[x]]

Keys(g) == {g[i][1] : i \in 1..Len(g)}

\* ---------------------------------------------------------------- the edge list
EdgesOfFirst(start, adj, i) ==
    IF Len(adj) = 0 THEN <<>>
    ELSE <<[start |-> start, end |-> adj[1][1], weight |-> adj[1][2]]>>
\* for end, weight in graph[start]
RECURSIVE EdgesOf(_, _, _)
EdgesOf(start, adj, i) ==
    IF i > Len(adj) THEN <<>>
    ELSE <<[start |-> start, end |-> adj[i][1], weight |-> adj[i][2]]>> \o EdgesOf(start, adj, i + 1)

RECURSIVE Flatten(_, _)
Flatten(g, i) ==
    IF i > Len(g) THEN <<>>
    ELSE EdgesOf(g[i][1], g[i][2], 1) \o Flatten(g, i + 1)

\* ---------------------------------------------------------------- relaxation
NumPassesShort(g) == Len(g) - 2
\* range(len(graph) - 1)
NumPasses(g) == Len(g) - 1

RelaxedNoWeight(d, e) == d[e.start]
\* distances[start] + weight
Relaxed(d, e) == Add(d[e.start], e.weight)

ImprovesOrEqual(d, e) == ~Less(d[e.end], Relaxed(d, e))
\* distances[start] + weight < distances[end]
Improves(d, e) == Less(Relaxed(d, e), d[e.end])

\* a pass that leaves out the edges whose endpoints are not in distances
RECURSIVE RelaxFromSkipping(_, _, _)
RelaxFromSkipping(st, es, i) ==
    IF i > Len(es) THEN st
    ELSE LET e == es[i] IN
         IF e.start \notin DOMAIN st.d \/ e.end \notin DOMAIN st.d
         THEN RelaxFromSkipping(st, es, i + 1)
         ELSE IF Improves(st.d, e)
              THEN RelaxFromSkipping([d |-> Put(st.d, e.end, Relaxed(st.d, e)),
                                      p |-> Put(st.p, e.end, e.start),
                                      err |-> FALSE], es, i + 1)
              ELSE RelaxFromSkipping(st, es, i + 1)

\* one pass of the inner for loop from edge i on; st = [d, p, err], err set by a failed lookup
RECURSIVE RelaxFrom(_, _, _)
RelaxFrom(st, es, i) ==
    IF i > Len(es) THEN st
    ELSE LET e == es[i] IN
         IF e.start \notin DOMAIN st.d \/ e.end \notin DOMAIN st.d
         THEN [st EXCEPT !.err = TRUE]
         ELSE IF Improves(st.d, e)
              THEN RelaxFrom([d |-> Put(st.d, e.end, Relaxed(st.d, e)),
                              p |-> Put(st.p, e.end, e.start),
                              err |-> FALSE], es, i + 1)
              ELSE RelaxFrom(st, es, i + 1)

CheckNothing(d, es, i) == "returned"
\* the check loop from edge i on: the first edge that fails the lookup or still relaxes decides
RECURSIVE CheckFrom(_, _, _)
CheckFrom(d, es, i) ==
    IF i > Len(es) THEN "returned"
    ELSE LET e == es[i] IN
         IF e.start \notin DOMAIN d \/ e.end \notin DOMAIN d THEN "KeyError"
         ELSE IF Improves(d, e) THEN "ValueError"
         ELSE CheckFrom(d, es, i + 1)

Append0(p, v) == Append(p, v)
\* path.insert(0, current)
Insert0(p, v) == <<v>> \o p

\* ---------------------------------------------------------------- inputs
KeySeq(K) == SelectSeq(Names, LAMBDA v : v \in K)

Pos(v) == CHOOSE i \in 1..Len(Names) : Names[i] = v

\* edge lists of at most MaxEdges edges leaving the keys K, grouped by key in dict order
EdgeLists(K) ==
    UNION {{es \in [1..n -> [start : K, end : Vertices, weight : Weights]] :
              \A i \in 1..n, j \in 1..n : i < j => Pos(es[i].start) <= Pos(es[j].start)}
           : n \in 0..MaxEdges}

AdjOf(es, k) ==
    LET mine == SelectSeq(es, LAMBDA e : e.start = k)
    IN [i \in 1..Len(mine) |-> <<mine[i].end, mine[i].weight>>]

GraphOf(K, es) == LET ks == KeySeq(K) IN [i \in 1..Len(ks) |-> <<ks[i], AdjOf(es, ks[i])>>]

ExampleGraph ==
    << <<"A", << <<"B", 3>>, <<"C", 5>> >> >>,
       <<"B", << <<"C", 2>>, <<"D", 6>> >> >>,
       <<"C", << <<"B", 1>>, <<"D", 4>>, <<"E", 6>> >> >>,
       <<"D", << <<"E", 2>> >> >>,
       <<"E", << <<"A", 3>>, <<"D", 7>> >> >> >>

Perms(n) == {f \in [1..n -> 1..n] : \A i \in 1..n, j \in 1..n : f[i] = f[j] => i = j}

\* the same dict with its keys and each adjacency list in another order
Reorderings(g) ==
    LET n == Len(g)
        ListPerms == {s \in [1..n -> UNION {Perms(Len(g[i][2])) : i \in 1..n}] :
                         \A i \in 1..n : DOMAIN s[i] = 1..Len(g[i][2])}
    IN {[i \in 1..n |-> <<g[kp[i]][1],
                          [j \in 1..Len(g[kp[i]][2]) |-> g[kp[i]][2][lp[kp[i]][j]]]>>]
        : kp \in Perms(n), lp \in ListPerms}

Blank ==
    /\ distances = <<>>
    /\ predecessors = <<>>
    /\ edges = <<>>
    /\ pass = 0
    /\ pc = "called"
    /\ target = None
    /\ current = None
    /\ path = <<>>

\* well-formed calls: every edge endpoint is a key, the source is a key
Init ==
    /\ \E n \in 1..Len(Names) :
         LET K == {Names[i] : i \in 1..n}
         IN \E es \in EdgeLists(K) :
              /\ \A i \in 1..Len(es) : es[i].end \in K
              /\ graph = GraphOf(K, es)
    /\ source \in Keys(graph)
    /\ first = NoCall
    /\ Blank

\* any call: edge targets and the source need not be keys
InitAny ==
    /\ \E K \in SUBSET Vertices : \E es \in EdgeLists(K) : graph = GraphOf(K, es)
    /\ source \in Vertices
    /\ first = NoCall
    /\ Blank

\* the __main__ example graph, from each of its vertices
InitExample ==
    /\ graph = ExampleGraph
    /\ source \in Keys(graph)
    /\ first = NoCall
    /\ Blank

\* ---------------------------------------------------------------- bellman_ford_algorithm
Call ==
    /\ pc = "called"
    /\ distances' = Put([v \in Keys(graph) |-> Inf], source, 0)
    /\ predecessors' = [v \in Keys(graph) |-> None]
    /\ edges' = Flatten(graph, 1)
    /\ pass' = 0
    /\ pc' = "relax"
    /\ UNCHANGED <<graph, source, target, current, path, first>>

RelaxPass ==
    /\ pc = "relax"
    /\ pass < NumPasses(graph)
    /\ LET st == RelaxFrom([d |-> distances, p |-> predecessors, err |-> FALSE], edges, 1)
       IN /\ distances' = st.d
          /\ predecessors' = st.p
          /\ pc' = IF st.err THEN "KeyError" ELSE "relax"
          /\ pass' = IF st.err THEN pass ELSE pass + 1
    /\ UNCHANGED <<graph, source, edges, target, current, path, first>>

CheckPass ==
    /\ pc = "relax"
    /\ ~(pass < NumPasses(graph))
    /\ pc' = CheckFrom(distances, edges, 1)
    /\ UNCHANGED <<graph, source, distances, predecessors, edges, pass, target, current, path, first>>

\* ---------------------------------------------------------------- reconstruct_path
Reconstruct ==
    /\ pc = "returned"
    /\ \E t \in DOMAIN distances : target' = t /\ current' = t
    /\ path' = <<>>
    /\ pc' = "walk"
    /\ UNCHANGED <<graph, source, distances, predecessors, edges, pass, first>>

\* one turn of the while loop; a chain that does not end is followed for |V| + 1 turns
WalkStep ==
    /\ pc = "walk"
    /\ current # None
    /\ Len(path) <= Cardinality(DOMAIN distances)
    /\ path' = Insert0(path, current)
    /\ IF current \in DOMAIN predecessors
       THEN current' = predecessors[current] /\ pc' = "walk"
       ELSE current' = current /\ pc' = "walk_KeyError"
    /\ UNCHANGED <<graph, source, distances, predecessors, edges, pass, target, first>>

WalkReturn ==
    /\ pc = "walk"
    /\ current = None
    /\ pc' = "path_returned"
    /\ UNCHANGED <<graph, source, distances, predecessors, edges, pass, target, current, path, first>>

Next == Call \/ RelaxPass \/ CheckPass \/ Reconstruct \/ WalkStep \/ WalkReturn

Spec == Init /\ [][Next]_vars

SpecAny == InitAny /\ [][Next]_vars

SpecExample == InitExample /\ [][Next]_vars

\* a second call on the same edges in another order, keeping the first call's outcome
CallAgain ==
    /\ pc \in {"returned", "ValueError"}
    /\ first.outcome = "NoCall"
    /\ first' = [outcome |-> pc, distances |-> distances]
    /\ graph' \in Reorderings(graph)
    /\ distances' = <<>>
    /\ predecessors' = <<>>
    /\ edges' = <<>>
    /\ pass' = 0
    /\ pc' = "called"
    /\ UNCHANGED <<source, target, current, path>>

NextOrder == Call \/ RelaxPass \/ CheckPass \/ CallAgain

SpecOrder == Init /\ [][NextOrder]_vars

\* ---------------------------------------------------------------- reference notions
GraphEdges == Flatten(graph, 1)

\* the call has just ended: it returned or raised
Ended == pc \in {"returned", "ValueError", "KeyError"}

\* the call returned, and reconstruct_path may have run on its result
Returned == pc \in {"returned", "walk", "path_returned", "walk_KeyError"}

\* <<v, w>> for every walk of at most k edges from s to v with total weight w
RECURSIVE WalksUpTo(_, _, _)
WalksUpTo(E, s, k) ==
    IF k <= 0 THEN {<<s, 0>>}
    ELSE LET W == WalksUpTo(E, s, k - 1)
         IN W \cup {<<E[ix[1]].end, ix[2][2] + E[ix[1]].weight>> :
                      ix \in {jy \in (1..Len(E)) \X W : E[jy[1]].start = jy[2][1]}}

\* the weights in a set W of <<vertex, weight>> pairs that belong to v
WeightsTo(W, v) == {x[2] : x \in {y \in W : y[1] = v}}

WalkWeights(E, s, v, k) == WeightsTo(WalksUpTo(E, s, k), v)

Min(S) == CHOOSE m \in S : \A x \in S : m <= x

\* least weight in W of a walk to v, Inf when there is none
Least(W, v) == LET ws == WeightsTo(W, v) IN IF ws = {} THEN Inf ELSE Min(ws)

\* least weight of a walk of at most k edges from s to v, Inf when there is none
MinWalk(E, s, v, k) == Least(WalksUpTo(E, s, k), v)

ReachableFrom(E, s) == {x[1] : x \in WalksUpTo(E, s, Len(graph))}

\* a closed walk of negative weight through c; one exists iff a simple one of at most |V| edges does
OnNegativeCycle(E, c) == \E w \in WalkWeights(E, c, c, Len(graph)) : w < 0

NegativeCycleReachable == \E c \in ReachableFrom(GraphEdges, source) : OnNegativeCycle(GraphEdges, c)

\* walks long enough to hold every walk without a repeated cycle
Horizon == 2 * Len(graph)

HasEdge(u, v) == \E i \in 1..Len(GraphEdges) : GraphEdges[i].start = u /\ GraphEdges[i].end = v

LightestEdge(u, v) ==
    Min({GraphEdges[i].weight : i \in {j \in 1..Len(GraphEdges) :
                                          GraphEdges[j].start = u /\ GraphEdges[j].end = v}})

RECURSIVE PathWeight(_, _)
PathWeight(p, i) == IF i >= Len(p) THEN 0 ELSE LightestEdge(p[i], p[i + 1]) + PathWeight(p, i + 1)

Dangling == \E i \in 1..Len(GraphEdges) : GraphEdges[i].end \notin Keys(graph)

\* ---------------------------------------------------------------- claims

\* C1: with no negative cycle reachable from the source, the call returns and distances[v] is
\* the least weight over all walks from source to v, +infinity exactly for the vertices
\* that have no walk from source.
C1_ShortestDistances ==
    (Ended /\ ~NegativeCycleReachable) =>
        /\ pc = "returned"
        /\ LET W == WalksUpTo(GraphEdges, source, Horizon)
               R == ReachableFrom(GraphEdges, source)
           IN \A v \in Keys(graph) :
                 /\ distances[v] = Least(W, v)
                 /\ (distances[v] = Inf) <=> (v \notin R)

\* a returned call where some vertex has a negative distance that no one-edge walk gives
C1_Witness ==
    /\ pc = "returned"
    /\ \E v \in Keys(graph) :
         /\ distances[v] < 0
         /\ distances[v] < MinWalk(GraphEdges, source, v, 1)

C3_PathOfFiniteTarget ==
    (pc \in {"walk", "path_returned", "walk_KeyError"} /\ distances[target] # Inf) =>
        /\ pc # "walk_KeyError"
        /\ Len(path) <= Len(graph)
        /\ (pc = "walk" /\ Len(path) = Len(graph)) => current = None
        /\ pc = "path_returned" =>
             /\ path[1] = source
             /\ path[Len(path)] = target
             /\ \A i \in 1..(Len(path) - 1) :
                  /\ predecessors[path[i + 1]] = path[i]
                  /\ HasEdge(path[i], path[i + 1])
             /\ PathWeight(path, 1) = distances[target]

\* a returned path of three vertices with nonzero weight
C3_Witness ==
    /\ pc = "path_returned"
    /\ distances[target] # Inf
    /\ distances[target] # 0
    /\ Len(path) = 3

\* C4: whenever the call returns, no edge can be relaxed further:
\* distances[v] <= distances[u] + w for every edge (u, v, w).
C4_FixedPoint ==
    pc = "returned" =>
        \A i \in 1..Len(GraphEdges) :
            LET e == GraphEdges[i]
            IN \/ distances[e.start] = Inf
               \/ (distances[e.end] # Inf /\ distances[e.end] <= distances[e.start] + e.weight)

\* a returned call with a negative edge between two reached vertices
C4_Witness ==
    /\ pc = "returned"
    /\ \E i \in 1..Len(GraphEdges) :
         /\ GraphEdges[i].weight < 0
         /\ distances[GraphEdges[i].start] # Inf
         /\ GraphEdges[i].start # GraphEdges[i].end

\* C5: after a successful call every vertex not reachable from source has distance +infinity
\* and no predecessor, and reconstruct_path returns the one-element sequence of that vertex.
C5_Unreachable ==
    Returned =>
        LET R == ReachableFrom(GraphEdges, source)
        IN /\ \A v \in Keys(graph) \ R : distances[v] = Inf /\ predecessors[v] = None
           /\ (pc = "path_returned" /\ target \notin R) => path = <<target>>
           /\ (pc = "walk" /\ target \notin R) =>
                (path = <<>> /\ current = target) \/ (path = <<target>> /\ current = None)

\* the path returned for an unreachable vertex that has a negative edge coming in from
\* another unreachable vertex
C5_Witness ==
    /\ pc = "path_returned"
    /\ target \notin ReachableFrom(GraphEdges, source)
    /\ \E i \in 1..Len(GraphEdges) :
         /\ GraphEdges[i].end = target
         /\ GraphEdges[i].start # target
         /\ GraphEdges[i].weight < 0

\* C6: when source is not a key of graph the call fails with a lookup error and never returns.
C6_UnknownSourceFails ==
    (Ended /\ source \notin Keys(graph)) => pc = "KeyError"

\* C7 as stated: a graph with an edge whose target is not a key (source being a key)
\* always fails with a lookup error.
C7_DanglingAlwaysKeyError ==
    (Ended /\ source \in Keys(graph) /\ Dangling) => pc = "KeyError"

\* the first edge of the list whose target is not a key
FirstDangling == CHOOSE i \in 1..Len(GraphEdges) :
                    /\ GraphEdges[i].end \notin Keys(graph)
                    /\ \A j \in 1..(i - 1) : GraphEdges[j].end \in Keys(graph)

NegativeLoopBeforeDangling ==
    /\ Len(graph) = 1
    /\ \E j \in 1..(FirstDangling - 1) : GraphEdges[j].weight < 0

\* C7 amended: such a graph never returns; it fails with a lookup error, except that a
\* one-vertex graph whose adjacency list has a negative self-loop before its first
\* dangling edge fails with the negative-cycle error.
C7_DanglingNeverReturns ==
    (Ended /\ source \in Keys(graph) /\ Dangling) =>
        pc = IF NegativeLoopBeforeDangling THEN "ValueError" ELSE "KeyError"

\* a one-vertex graph, no relaxation pass run, failing in the check loop on the lookup
C7_Witness ==
    /\ pc = "KeyError"
    /\ source \in Keys(graph)
    /\ Len(graph) = 1
    /\ pass = 0

\* C8: a second call on the same edges in another order ends as the first did: both raise
\* the negative-cycle error or both return the same distances.
C8_OrderIndependent ==
    (Ended /\ first.outcome # "NoCall") =>
        /\ pc = first.outcome
        /\ pc = "returned" => distances = first.distances

\* a second call whose edge list differs from the first call's order, returning distances
\* that needed the last pass in one of the two orders
C8_Witness ==
    /\ pc = "returned"
    /\ first.outcome = "returned"
    /\ \E i \in 1..Len(edges) : \E j \in 1..Len(edges) :
         /\ i < j
         /\ edges[i].start = edges[j].end
         /\ edges[i].start # source
         /\ edges[j].start # edges[j].end
         /\ distances[edges[i].end] # Inf
         /\ edges[i].end # edges[i].start

\* C9 as stated: on the example graph from A the call returns A=0, B=3, C=4, D=6, E=8.
C9_ExampleAsStated ==
    (Ended /\ source = "A") =>
        /\ pc = "returned"
        /\ distances = [v \in Keys(graph) |->
                          CASE v = "A" -> 0 [] v = "B" -> 3 [] v = "C" -> 4
                            [] v = "D" -> 6 [] v = "E" -> 8]

\* C9 amended: on the example graph from A the call returns A=0, B=3, C=5, D=9, E=11.
C9_ExampleDistances ==
    (Ended /\ source = "A") =>
        /\ pc = "returned"
        /\ distances = [v \in Keys(graph) |->
                          CASE v = "A" -> 0 [] v = "B" -> 3 [] v = "C" -> 5
                            [] v = "D" -> 9 [] v = "E" -> 11]

C9_Witness ==
    /\ pc = "returned"
    /\ source = "A"
    /\ graph = ExampleGraph

\* C10: the relaxation loop runs exactly |V| - 1 passes (none for at most one vertex);
\* after k passes distances[v] is at most the least weight of a walk of at most k edges
\* from source to v, and every finite distances[v] is the weight of some walk to v.
C10_PassInvariant ==
    /\ pc = "relax" => pass <= (IF Len(graph) <= 1 THEN 0 ELSE Len(graph) - 1)
    /\ pc \in {"returned", "ValueError"} =>
          pass = IF Len(graph) <= 1 THEN 0 ELSE Len(graph) - 1
    /\ pc \in {"relax", "returned", "ValueError"} =>
          LET E == GraphEdges
              Wk == WalksUpTo(E, source, pass)
              Wany == WalksUpTo(E, source, pass * Len(E))
          IN \A v \in Keys(graph) :
                /\ LET m == Least(Wk, v)
                   IN m = Inf \/ (distances[v] # Inf /\ distances[v] <= m)
                /\ distances[v] # Inf => distances[v] \in WeightsTo(Wany, v)

\* between passes, a vertex already below its best one-edge walk, with a pass still to run
C10_Witness ==
    /\ pc = "relax"
    /\ pass = 1
    /\ pass < NumPasses(graph)
    /\ \E v \in Keys(graph) :
         /\ distances[v] # Inf
         /\ distances[v] < MinWalk(GraphEdges, source, v, 1)

====
